---- MODULE Spec2Model ----
(***************************************************************************)
(* Model of multi_doc_chat/utils/model_loader.py: ApiKeyManager (the Key   *)
(* Resolver) and ModelLoader (load_embeddings, load_llm).                  *)
(*                                                                         *)
(* Python dicts (os.environ, self.keys, the YAML config and its sections)  *)
(* are functions whose DOMAIN is the set of keys present.  A call returns  *)
(* a result record: kind is "ok" or the class of the exception raised.     *)
(*                                                                         *)
(* Collaborators outside the file are modelled by what the file relies on: *)
(* load_dotenv() adds the variables of .env that the process lacks,        *)
(* load_config() returns the mapping of config.yaml (a load that fails     *)
(* raises in the collaborator, before any state of this file exists),      *)
(* the two client classes bind the arguments they are given, and log.info  *)
(* changes nothing.  Secrets, provider and model names are strings; a      *)
(* temperature is a number of tenths.                                      *)
(***************************************************************************)
EXTENDS Integers, FiniteSets, Sequences, TLC

(* ------------------------------ bounds --------------------------------- *)
\* temperatures of the configuration are 0..MaxTemp (tenths)
MaxTemp == 1

(* --------------------------- dict helpers ------------------------------ *)
EmptyDict == [k \in {} |-> ""]

Has(d, k) == k \in DOMAIN d

Put(d, k, v) == [x \in (DOMAIN d) \cup {k} |-> IF x = k THEN v ELSE d[x]]

Del(d, k) == [x \in (DOMAIN d) \ {k} |-> d[x]]

\* all dicts whose keys are among DOMAIN V, a key k holding a value of V[k]
Dicts(V) == UNION { { f \in [S -> UNION { V[k] : k \in S }] :
                        \A k \in S : f[k] \in V[k] } : S \in SUBSET DOMAIN V }

(* ------------------------- the input universe -------------------------- *)
SupportedKeys == <<"GROQ_API_KEY", "GOOGLE_API_KEY">>

SupportedKeySet == { SupportedKeys[i] : i \in 1..Len(SupportedKeys) }

\* the environment variables the module reads and the values they take here
EnvValues ==
    [ENV            |-> {"local", "PRODUCTION"},
     GROQ_API_KEY   |-> {"", "gsk-1", "gsk-2"},
     GOOGLE_API_KEY |-> {"", "goog-1"},
     LLM_PROVIDER   |-> {"groq", "openai"}]

EnvNames == DOMAIN EnvValues

\* names a caller may ask the Key Resolver for
GetNames == {"GROQ_API_KEY", "GOOGLE_API_KEY", "OPENAI_API_KEY"}

\* the .env file of the working directory (an absent file is the empty one)
DotenvFiles == { EmptyDict,
                 [GROQ_API_KEY |-> "gsk-2", GOOGLE_API_KEY |-> "goog-1"] }

EmbValues == [provider |-> {"google", "openai"}, model_name |-> {"embed-001"}]

EmbSections == Dicts(EmbValues)

LlmEntries ==
    { [model_name |-> "llama-3"], EmptyDict }
      \cup { [model_name |-> "llama-3", temperature |-> t] : t \in 0..MaxTemp }
      \cup { [temperature |-> t] : t \in 0..MaxTemp }

LlmSections ==
    { EmptyDict }
      \cup { [groq |-> e] : e \in LlmEntries }
      \cup { [openai |-> e] : e \in LlmEntries }
      \cup { [groq |-> [model_name |-> "llama-3"],
              openai |-> [model_name |-> "gpt-x", temperature |-> MaxTemp]] }

BaseEmb == [provider |-> "google", model_name |-> "embed-001"]

BaseLlm == [groq |-> [model_name |-> "llama-3"]]

\* config.yaml contents: each section varied against a complete other one
ConfigFiles ==
    { [embedding_model |-> e, llm |-> BaseLlm] : e \in EmbSections }
      \cup { [llm |-> BaseLlm] }
      \cup { [embedding_model |-> BaseEmb, llm |-> l] : l \in LlmSections }
      \cup { [embedding_model |-> BaseEmb] }

(* ------------------------------ results -------------------------------- *)
NoHandle == [cls |-> "None", model |-> "", api_key |-> "", temperature |-> 0]

Ok(ret, handle, resolved) ==
    [kind |-> "ok", msg |-> "", ret |-> ret, handle |-> handle,
     resolved |-> resolved]

Raise(kind, msg, resolved) ==
    [kind |-> kind, msg |-> msg, ret |-> "", handle |-> NoHandle,
     resolved |-> resolved]

NoCall == [op |-> "none", arg |-> ""] @@ Ok("", NoHandle, {})

(* ---------------------------- ApiKeyManager ---------------------------- *)
\* str.lower() on the values ENV takes here
lower(s) == CASE s = "PRODUCTION" -> "production"
              [] OTHER -> s

\* os.getenv(key, default)
getenv(e, key, default) == IF Has(e, key) THEN e[key] ELSE default

\* load_dotenv(): variables of the file that the process does not already
\* have are added to os.environ; existing ones are kept
load_dotenv(e, file) ==
    [x \in (DOMAIN e) \cup (DOMAIN file) |-> IF Has(e, x) THEN e[x] ELSE file[x]]

\* the loop of ApiKeyManager.__init__, storing a value that is not checked
LoadKeysUnchecked(e) ==
    [k \in SupportedKeySet |-> IF Has(e, k) THEN e[k] ELSE ""]

\* the loop of ApiKeyManager.__init__, storing the name in place of the value
LoadKeysName(e) ==
    [k \in { n \in SupportedKeySet : Has(e, n) /\ e[n] # "" } |-> k]

\* the loop of ApiKeyManager.__init__: val = os.getenv(key); if val: store
LoadKeys(e) ==
    [k \in { n \in SupportedKeySet : Has(e, n) /\ e[n] # "" } |-> e[k]]

\* ApiKeyManager.__init__: the environment and the store it leaves
ApiKeyManager_init(e, file) ==
    LET e1 == IF lower(getenv(e, "ENV", "local")) # "production"
              THEN load_dotenv(e, file) ELSE e
    IN  [env |-> e1, keys |-> LoadKeys(e1)]

\* get that falls back to an empty default
ApiKeyManager_get_default(ks, key) ==
    IF Has(ks, key) THEN Ok(ks[key], NoHandle, {key}) ELSE Ok("", NoHandle, {key})

\* get that refuses while any supported secret is missing
ApiKeyManager_get_eager(ks, key) ==
    IF ~Has(ks, key) \/ \E n \in SupportedKeySet : ~Has(ks, n)
    THEN Raise("DocumentPortalException", "Missing API key: " \o key, {key})
    ELSE Ok(ks[key], NoHandle, {key})

\* ApiKeyManager.get
ApiKeyManager_get(ks, key) ==
    IF ~Has(ks, key) \/ ks[key] = ""
    THEN Raise("DocumentPortalException", "Missing API key: " \o key, {key})
    ELSE Ok(ks[key], NoHandle, {key})

(* ----------------------------- ModelLoader ------------------------------ *)
\* Python's None where a string is expected
PyNone == "<None>"

\* dict.get(key) on a dict of strings
DictGet(d, key) == IF Has(d, key) THEN d[key] ELSE PyNone

\* load_config(): the mapping parsed from config.yaml
load_config(file) == file

\* GoogleGenerativeAIEmbeddings(model=, google_api_key=).  The library binds
\* its arguments.  What it does with model=None is not fixed by this code:
\* lib = "rejects" is a validation error of the library, lib = "accepts" a
\* handle without a model name.
GoogleGenerativeAIEmbeddings(model, key, lib) ==
    IF model = PyNone /\ lib = "rejects"
    THEN Raise("ValidationError", "model", {"GOOGLE_API_KEY"})
    ELSE Ok("", [cls |-> "GoogleGenerativeAIEmbeddings", model |-> model,
                 api_key |-> key, temperature |-> 0], {"GOOGLE_API_KEY"})

\* ChatGroq(model=, api_key=, temperature=)
ChatGroq(model, key, temperature) ==
    Ok("", [cls |-> "ChatGroq", model |-> model, api_key |-> key,
            temperature |-> temperature], {"GROQ_API_KEY"})

\* the provider test accepting a section that names no provider
UnsupportedProviderLax(provider) == provider \notin {"google", PyNone}

\* load_embeddings: provider != "google"
UnsupportedProvider(provider) == provider # "google"

\* the model argument taken from the provider field
EmbeddingModelFromProvider(sec) == DictGet(sec, "provider")

\* load_embeddings: model_name = cfg.get("model_name")
EmbeddingModel(sec) == DictGet(sec, "model_name")

\* ModelLoader.load_embeddings
load_embeddings(cfg, ks, lib) ==
    IF ~Has(cfg, "embedding_model") \/ DOMAIN cfg["embedding_model"] = {}
    THEN Raise("DocumentPortalException",
               "Missing embedding_model in config.yaml", {})
    ELSE LET sec        == cfg["embedding_model"]
             provider   == DictGet(sec, "provider")
             model_name == EmbeddingModel(sec)
             k          == ApiKeyManager_get(ks, "GOOGLE_API_KEY")
         IN  IF UnsupportedProvider(provider)
             THEN Raise("DocumentPortalException",
                        "Only 'google' embeddings are supported", {})
             ELSE IF k.kind # "ok" THEN k
             ELSE GoogleGenerativeAIEmbeddings(model_name, k.ret, lib)

\* the provider selector with another default
LlmProviderOpenai(e) == getenv(e, "LLM_PROVIDER", "openai")

\* load_llm: provider = os.getenv("LLM_PROVIDER", "groq")
LlmProvider(e) == getenv(e, "LLM_PROVIDER", "groq")

\* the temperature argument with another default
TemperatureOne(c) == IF Has(c, "temperature") THEN c["temperature"] ELSE 1

\* load_llm: cfg.get("temperature", 0)
Temperature(c) == IF Has(c, "temperature") THEN c["temperature"] ELSE 0

\* load_llm resolving the key before it looks at the configuration
load_llm_key_first(cfg, ks, e) ==
    LET provider == LlmProvider(e)
        k        == ApiKeyManager_get(ks, "GROQ_API_KEY")
    IN  IF k.kind # "ok" THEN k
        ELSE IF ~Has(cfg, "llm") \/ DOMAIN cfg["llm"] = {}
                 \/ ~Has(cfg["llm"], provider)
        THEN Raise("DocumentPortalException",
                   "LLM provider '" \o provider \o "' not found in config.yaml",
                   {"GROQ_API_KEY"})
        ELSE LET c == cfg["llm"][provider]
             IN  IF ~Has(c, "model_name")
                 THEN Raise("KeyError", "model_name", {"GROQ_API_KEY"})
                 ELSE ChatGroq(c["model_name"], k.ret, Temperature(c))

\* ModelLoader.load_llm
load_llm(cfg, ks, e) ==
    LET provider == LlmProvider(e)
    IN  IF ~Has(cfg, "llm") \/ DOMAIN cfg["llm"] = {} \/ ~Has(cfg["llm"], provider)
        THEN Raise("DocumentPortalException",
                   "LLM provider '" \o provider \o "' not found in config.yaml", {})
        ELSE LET c == cfg["llm"][provider]
                 k == ApiKeyManager_get(ks, "GROQ_API_KEY")
             IN  IF ~Has(c, "model_name")
                 THEN Raise("KeyError", "model_name", {})
                 ELSE IF k.kind # "ok" THEN k
                 ELSE ChatGroq(c["model_name"], k.ret, Temperature(c))

(* ------------------------------- state --------------------------------- *)
VARIABLES env,         \* os.environ
          dotenvFile,  \* the .env file
          configFile,  \* config.yaml
          phase,       \* "start" before ModelLoader() is constructed, then "ready"
          keys,        \* ApiKeyManager.keys, the Secret Store
          config,      \* ModelLoader.config, the Provider Configuration
          envAtInit,   \* the supported names as os.environ held them when the
                       \* store was filled (history)
          result       \* the outcome of the latest call

vars == <<env, dotenvFile, configFile, phase, keys, config, envAtInit, result>>

Call(op, arg, r) == [op |-> op, arg |-> arg] @@ r

Init ==
    /\ env \in Dicts(EnvValues)
    /\ dotenvFile \in DotenvFiles
    /\ configFile \in ConfigFiles
    /\ phase = "start"
    /\ keys = EmptyDict
    /\ config = EmptyDict
    /\ envAtInit = EmptyDict
    /\ result = NoCall

\* the application sets an environment variable
SetEnv ==
    /\ \E name \in EnvNames : \E v \in EnvValues[name] :
          /\ getenv(env, name, PyNone) # v
          /\ env' = Put(env, name, v)
    /\ UNCHANGED <<dotenvFile, configFile, phase, keys, config, envAtInit, result>>

\* the application removes an environment variable
UnsetEnv ==
    /\ \E name \in DOMAIN env : env' = Del(env, name)
    /\ UNCHANGED <<dotenvFile, configFile, phase, keys, config, envAtInit, result>>

\* ModelLoader(): ApiKeyManager() and load_config()
ModelLoader_init ==
    /\ phase = "start"
    /\ LET m == ApiKeyManager_init(env, dotenvFile)
       IN  /\ env' = m.env
           /\ keys' = m.keys
           /\ envAtInit' = [n \in (DOMAIN m.env) \cap SupportedKeySet |-> m.env[n]]
    /\ config' = load_config(configFile)
    /\ phase' = "ready"
    /\ result' = Call("ModelLoader", "", Ok("", NoHandle, {}))
    /\ UNCHANGED <<dotenvFile, configFile>>

\* api_key_mgr.get(name)
Get ==
    /\ phase = "ready"
    /\ \E name \in GetNames :
          result' = Call("get", name, ApiKeyManager_get(keys, name))
    /\ UNCHANGED <<env, dotenvFile, configFile, phase, keys, config, envAtInit>>

\* load_embeddings()
LoadEmbeddings ==
    /\ phase = "ready"
    /\ \E lib \in {"accepts", "rejects"} :
          result' = Call("load_embeddings", "", load_embeddings(config, keys, lib))
    /\ UNCHANGED <<env, dotenvFile, configFile, phase, keys, config, envAtInit>>

\* load_llm()
LoadLlm ==
    /\ phase = "ready"
    /\ result' = Call("load_llm", "", load_llm(config, keys, env))
    /\ UNCHANGED <<env, dotenvFile, configFile, phase, keys, config, envAtInit>>

Next ==
    \/ SetEnv
    \/ UnsetEnv
    \/ ModelLoader_init
    \/ Get
    \/ LoadEmbeddings
    \/ LoadLlm

Spec == Init /\ [][Next]_vars

(* ------------------------------ properties ----------------------------- *)
\* name held a non-empty value in os.environ when the store was filled
LoadedAtInit(name) == Has(envAtInit, name) /\ envAtInit[name] # ""

\* the provider load_llm selects in the current environment
Selected == IF Has(env, "LLM_PROVIDER") THEN env["LLM_PROVIDER"] ELSE "groq"

\* the llm section has an entry for provider p
HasEntry(p) == Has(config, "llm") /\ Has(config["llm"], p)

\* the provider named by the embedding section, PyNone without one
EmbProvider ==
    IF Has(config, "embedding_model") /\ Has(config["embedding_model"], "provider")
    THEN config["embedding_model"]["provider"] ELSE PyNone

\* C1: a supported name whose environment value was non-empty when the Key
\* Resolver was constructed is returned by every later get(name) with exactly
\* that value, whatever calls and environment changes came in between.
C1_GetReturnsLoadedValue ==
    (result.op = "get" /\ LoadedAtInit(result.arg))
        => (result.kind = "ok" /\ result.ret = envAtInit[result.arg])

\* get returned the value of .env although the variable has since been changed
C1_Witness ==
    /\ result.op = "get" /\ result.arg = "GROQ_API_KEY"
    /\ result.kind = "ok" /\ result.ret = "gsk-2"
    /\ dotenvFile # EmptyDict
    /\ Has(env, "GROQ_API_KEY") /\ env["GROQ_API_KEY"] = "gsk-1"

\* C2: get(name) raises the configuration error for every name not loaded at
\* construction (outside the supported set, absent from the environment, or
\* empty there) and returns no default.
C2_GetMissingRaises ==
    (result.op = "get" /\ ~LoadedAtInit(result.arg))
        => /\ result.kind = "DocumentPortalException"
           /\ result.msg = "Missing API key: " \o result.arg
           /\ result.ret = ""

\* get of a supported name whose environment value was empty has raised
C2_Witness ==
    /\ result.op = "get" /\ result.arg = "GOOGLE_API_KEY"
    /\ Has(envAtInit, "GOOGLE_API_KEY") /\ envAtInit["GOOGLE_API_KEY"] = ""
    /\ result.kind = "DocumentPortalException"

\* C3: load_embeddings() raises the configuration error whenever the embedding
\* section's provider is not "google" (an absent provider included), whatever
\* model_name is and whether or not GOOGLE_API_KEY is stored; no key is
\* resolved and no handle is constructed.
C3_NonGoogleRaises ==
    (result.op = "load_embeddings" /\ EmbProvider # "google")
        => /\ result.kind = "DocumentPortalException"
           /\ result.handle = NoHandle
           /\ result.resolved = {}

\* a section with a model name and no provider was refused with the key stored
C3_Witness ==
    /\ result.op = "load_embeddings"
    /\ Has(config, "embedding_model")
    /\ DOMAIN config["embedding_model"] = {"model_name"}
    /\ Has(keys, "GOOGLE_API_KEY")
    /\ result.kind = "DocumentPortalException"

\* C4: load_embeddings() with provider "google", a configured model_name and
\* GOOGLE_API_KEY in the store returns an embedding handle whose model is the
\* configured model_name and whose key is the stored GOOGLE_API_KEY.
C4_EmbeddingHandle ==
    (/\ result.op = "load_embeddings"
     /\ EmbProvider = "google"
     /\ Has(config["embedding_model"], "model_name")
     /\ Has(keys, "GOOGLE_API_KEY"))
        => /\ result.kind = "ok"
           /\ result.handle.cls = "GoogleGenerativeAIEmbeddings"
           /\ result.handle.model = config["embedding_model"]["model_name"]
           /\ result.handle.api_key = keys["GOOGLE_API_KEY"]

\* an embedding handle was returned with the configured model and stored key
C4_Witness ==
    /\ result.op = "load_embeddings" /\ result.kind = "ok"
    /\ result.handle.model = "embed-001"
    /\ result.handle.api_key = "goog-1"
    /\ ~Has(keys, "GROQ_API_KEY")

\* C5: load_llm() selects the provider from LLM_PROVIDER as read at call time,
\* "groq" when it is unset: when the selected entry has a model_name and
\* GROQ_API_KEY is stored, the chat handle returned carries that entry's
\* model_name.
C5_LlmProviderDefault ==
    [][ (/\ LoadLlm
         /\ HasEntry(Selected)
         /\ Has(config["llm"][Selected], "model_name")
         /\ Has(keys, "GROQ_API_KEY"))
            => /\ result'.kind = "ok"
               /\ result'.handle.cls = "ChatGroq"
               /\ result'.handle.model = config["llm"][Selected]["model_name"]
               /\ result'.handle.api_key = keys["GROQ_API_KEY"] ]_vars

\* with LLM_PROVIDER unset and two providers configured, groq's model was used
C5_Witness ==
    /\ result.op = "load_llm" /\ result.kind = "ok"
    /\ ~Has(env, "LLM_PROVIDER")
    /\ HasEntry("groq") /\ HasEntry("openai")
    /\ result.handle.model = "llama-3"

\* C6: load_llm() raises the configuration error when the llm section is
\* absent or empty or has no entry for the selected provider, and then
\* resolves no API key and constructs no handle.
C6_LlmProviderMissing ==
    [][ (LoadLlm /\ ~HasEntry(Selected))
            => /\ result'.kind = "DocumentPortalException"
               /\ result'.msg = "LLM provider '" \o Selected
                                   \o "' not found in config.yaml"
               /\ result'.resolved = {}
               /\ result'.handle = NoHandle ]_vars

\* load_llm refused a provider that has no entry, although no key is stored
C6_Witness ==
    /\ result.op = "load_llm"
    /\ Has(env, "LLM_PROVIDER") /\ env["LLM_PROVIDER"] = "openai"
    /\ HasEntry("groq") /\ ~HasEntry("openai")
    /\ ~Has(keys, "GROQ_API_KEY")
    /\ result.kind = "DocumentPortalException"
    /\ result.resolved = {}

\* C7: load_llm() builds the handle with the selected entry's temperature when
\* it has one and with 0 when it has none; nothing else is defaulted: without
\* a model_name or without the stored key no handle is built.
C7_Temperature ==
    [][ (LoadLlm /\ HasEntry(Selected))
            => LET c == config["llm"][Selected]
               IN  IF Has(c, "model_name") /\ Has(keys, "GROQ_API_KEY")
                   THEN /\ result'.kind = "ok"
                        /\ result'.handle.model = c["model_name"]
                        /\ result'.handle.api_key = keys["GROQ_API_KEY"]
                        /\ Has(c, "temperature")
                              => result'.handle.temperature = c["temperature"]
                        /\ ~Has(c, "temperature")
                              => result'.handle.temperature = 0
                   ELSE /\ result'.kind # "ok"
                        /\ result'.handle = NoHandle ]_vars

\* a handle was built from an entry that omits temperature
C7_Witness ==
    /\ result.op = "load_llm" /\ result.kind = "ok"
    /\ HasEntry(Selected)
    /\ ~Has(config["llm"][Selected], "temperature")
    /\ result.handle.temperature = 0

\* C8: every failure of get, load_embeddings and load_llm is the one
\* configuration error, the missing model name included: no other error kind
\* and no handle without a model name.
C8_SingleErrorKind ==
    /\ result.kind \in {"ok", "DocumentPortalException"}
    /\ result.kind = "ok" => result.handle.model # PyNone

\* the names in the store are supported names and their values are non-empty
StoreInv == \A n \in DOMAIN keys : n \in SupportedKeySet /\ keys[n] # ""

\* C9: the Secret Store holds only supported names with non-empty values, and
\* once the Key Resolver is constructed no step (a call that succeeds or
\* fails, a change of the environment) changes the store or the configuration.
C9_StoreImmutable ==
    /\ []StoreInv
    /\ [][phase = "ready" => (keys' = keys /\ config' = config)]_vars

\* a call failed on a secret that was skipped because its value was empty
C9_Witness ==
    /\ phase = "ready"
    /\ result.op = "load_llm" /\ result.kind = "DocumentPortalException"
    /\ result.resolved = {"GROQ_API_KEY"}
    /\ Has(envAtInit, "GROQ_API_KEY") /\ envAtInit["GROQ_API_KEY"] = ""
    /\ DOMAIN keys = {"GOOGLE_API_KEY"}

\* a step in which the constructed loader is called: op is the call made
\* (the environment changes in every other step it can take)
CallStep(op) == phase = "ready" /\ env' = env /\ result'.op = op

\* what a call reports about the secret it resolves: the value when it was
\* loaded, "Missing API key" when it was not
ResolvesLazily(r, name) ==
    IF LoadedAtInit(name)
    THEN r.kind = "ok"
    ELSE /\ r.kind = "DocumentPortalException"
         /\ r.msg = "Missing API key: " \o name
         /\ r.resolved = {name}

\* C10: construction succeeds for every combination of absent or empty
\* secrets and skips them silently; a missing secret is reported only by a
\* later call that resolves that name, and calls that need only the other
\* secret still succeed.
C10_LazyFailure ==
    /\ [](phase = "start" => ENABLED ModelLoader_init)
    /\ [][ /\ phase = "start" /\ phase' = "ready"
              => /\ result'.kind = "ok"
                 /\ DOMAIN keys' = { n \in SupportedKeySet :
                                        Has(env', n) /\ env'[n] # "" }
           /\ (CallStep("get") /\ result'.arg \in SupportedKeySet)
                 => ResolvesLazily(result', result'.arg)
           /\ (CallStep("load_embeddings") /\ EmbProvider = "google"
                 /\ Has(config["embedding_model"], "model_name"))
                 => ResolvesLazily(result', "GOOGLE_API_KEY")
           /\ (CallStep("load_llm") /\ HasEntry(Selected)
                 /\ Has(config["llm"][Selected], "model_name"))
                 => ResolvesLazily(result', "GROQ_API_KEY")
           /\ \A n \in SupportedKeySet :
                 result'.msg = "Missing API key: " \o n
                    => (~LoadedAtInit(n) /\ n \in result'.resolved) ]_vars

\* with GROQ_API_KEY missing, load_embeddings still returned a handle
C10_Witness ==
    /\ result.op = "load_embeddings" /\ result.kind = "ok"
    /\ ~Has(envAtInit, "GROQ_API_KEY")
    /\ Has(envAtInit, "GOOGLE_API_KEY")
    /\ result.handle.api_key = envAtInit["GOOGLE_API_KEY"]

====
